---- MODULE Spec2Model ----
(***************************************************************************)
(* The command-line tokenizer of larayavrs/vortex (pkg/utils.go) and its   *)
(* callers: the body temp file of RequestConfig (request_config.go),       *)
(* ReadEnviromentFile (env.go), GetTemplateFilenames (filename.go) and     *)
(* CaptureEditorOutput and LoadEditedTemplateContent (read.go).            *)
(*                                                                         *)
(* TokenizeLine works on package-level variables (tokenizedLines,          *)
(* lastQuoteRune, lastQuotePos, builder) and Ellipsize on two more         *)
(* (preContext, postContext).  They are the shared state of this model.    *)
(* A call is modelled step by step: Call starts it, ScanStep runs one      *)
(* iteration of the for loop, Finish runs the code after the loop.         *)
(*                                                                         *)
(* A string is modelled as the sequence of its runes (one-character        *)
(* strings); Bytes gives its UTF-8 bytes, which is what Ellipsize slices.  *)
(*                                                                         *)
(* utils.go holds the package twice; the model follows the complete copy,  *)
(* lines 1-188 (the second, lines 190-301, is a truncated TokenizeLine     *)
(* without Ellipsize).                                                     *)
(***************************************************************************)
EXTENDS Integers, Sequences, FiniteSets, TLC

\* ---------------------------------------------------------------- bounds
\* Total work of one run: every call costs one step for each rune of its
\* input (a loop iteration at most) and one for the code after the loop.
MaxWork == 7

\* Longest run of one rune put before or after the body of a padded input.
MaxPad == 7

\* Longest text handed to Ellipsize by a direct call.
MaxText == 8

\* Total work of one run with long inputs and direct calls of Ellipsize;
\* the padding of an input is charged PadWork, a direct call EllWork.
MaxLongWork == 5
PadWork == 2
EllWork == 2

\* Number of temporary files os.CreateTemp hands out in one run.
MaxFiles == 2

\* Number of calls of ReadEnviromentFile in one run.
MaxReads == 2

\* Total work of the TokenizeLine calls of GetTemplateFilenames in one run.
MaxPipeWork == 5

\* Total work of the TokenizeLine calls of CaptureEditorOutput in one run.
MaxEditWork == 5

\* ------------------------------------------------------------- constants
quoteEscapeRune == "\\"
errUnterminatedQuote == 3
threeChars == 3
quoteRunes == <<"\"", "'">>

\* The zero value of a rune variable (lastQuoteRune == 0: no quote is open).
NoRune == ""

\* The runes the inputs are built from: an ordinary character, a white
\* space, the two quote characters and the escape character.
Alphabet == {"a", " ", "\"", "'", "\\"}

\* The goroutines that may call TokenizeLine.
Procs == {1, 2}

\* unicode.IsSpace, on the runes of the model.
IsSpace(r) == r \in {" ", "\t", "\n"}

\* head == qr for some qr of quoteRunes.
IsQuoteRune(r) == \E k \in 1..Len(quoteRunes) : quoteRunes[k] = r

\* The UTF-8 encoding of one rune: "é" takes two bytes, the others one.
UTF8(r) == IF r = "é" THEN <<"é/0", "é/1">> ELSE <<r>>

RECURSIVE Bytes(_)
\* The bytes of a string given by its runes (what len() and s[a:b] see).
Bytes(runes) ==
    IF runes = <<>> THEN <<>> ELSE UTF8(Head(runes)) \o Bytes(Tail(runes))

\* ----------------------------------------------------------------- state
VARIABLES
    tokenizedLines,   \* package variable: the tokens collected
    lastQuoteRune,    \* package variable: the open quote rune, NoRune if none
    lastQuotePos,     \* package variable: rune index where it was opened
    builder,          \* package variable: the token being built (its runes)
    preContext,       \* package variable written by Ellipsize
    postContext,      \* package variable written by Ellipsize
    pc,               \* per goroutine: "idle", "scan", "done", "panic"
    cmdline,          \* per goroutine: the argument of the current call
    i,                \* per goroutine: the loop index (0-based, as in Go)
    ret,              \* per goroutine: what the last call returned
    startedFresh,     \* per goroutine: the call began in the initial state
    spent,            \* work handed out so far (bounds the run)
    ellLast,          \* the direct call of Ellipsize just made, its result
    rc,               \* the RequestConfig: Tempfile, TempfileName, Body, Verbose
    fs,               \* the temporary files that exist on disk
    made,             \* how many names os.CreateTemp has handed out
    rcLast,           \* the last call on rc: its arguments and what it did
    env,              \* the process environment: variable -> value or Unset
    envOrig,          \* the environment before the first ReadEnviromentFile
    firstVal,         \* per variable: its value in the first file parsed
    defs,             \* per variable: how many parsed files defined it
    reads,            \* calls of ReadEnviromentFile so far
    envErr,           \* the last ReadEnviromentFile returned an error
    localTemplateFilenames,  \* package variable of internal/disk
    gtfLast,          \* the last call of GetTemplateFilenames and its result
    capLast,          \* the last call of CaptureEditorOutput and its result
    loadLast          \* the last call of LoadEditedTemplateContent

globals == <<tokenizedLines, lastQuoteRune, lastQuotePos, builder,
             preContext, postContext>>
\* The variables of the callers of Ellipsize.
ellVars == <<ellLast>>

\* The variables of the RequestConfig and the files it creates.
rcVars == <<rc, fs, made, rcLast>>

\* The variables of ReadEnviromentFile.
envVars == <<env, envOrig, firstVal, defs, reads, envErr>>

\* The variables of GetTemplateFilenames.
gtfVars == <<localTemplateFilenames, gtfLast>>

\* The variables of CaptureEditorOutput and LoadEditedTemplateContent.
editVars == <<capLast, loadLast>>

\* The variables TokenizeLine does not touch.
aux == <<ellVars, rcVars, envVars, gtfVars, editVars>>

vars == <<tokenizedLines, lastQuoteRune, lastQuotePos, builder,
          preContext, postContext, pc, cmdline, i, ret, startedFresh, spent,
          aux>>

\* The package-level variables as one record.
G == [tokenizedLines |-> tokenizedLines, lastQuoteRune |-> lastQuoteRune,
      lastQuotePos |-> lastQuotePos, builder |-> builder,
      preContext |-> preContext, postContext |-> postContext]

\* The package-level variables when the process starts (Go zero values).
FreshG == [tokenizedLines |-> <<>>, lastQuoteRune |-> NoRune,
           lastQuotePos |-> 0, builder |-> <<>>,
           preContext |-> <<>>, postContext |-> <<>>]

SetG(g) ==
    /\ tokenizedLines' = g.tokenizedLines
    /\ lastQuoteRune' = g.lastQuoteRune
    /\ lastQuotePos' = g.lastQuotePos
    /\ builder' = g.builder
    /\ preContext' = g.preContext
    /\ postContext' = g.postContext

\* What a goroutine holds before its first call returns.
NoRet == [panic |-> FALSE, tokens |-> <<>>, err |-> FALSE, pos |-> 0,
          context |-> <<>>]

\* ------------------------------------------------------------- Ellipsize
Ellipsis == <<".", ".", ".">>

\* Mutant of PreContextIndex: the start is kept from index 3 on.
PreContextIndex_Strict(from) == IF from < threeChars THEN 0 ELSE from

\* Mutant of PreContextIndex: one more leading byte is shown.
PreContextIndex_Wide(from) == IF from <= threeChars + 1 THEN 0 ELSE from

\* preContextIndex of Ellipsize.
PreContextIndex(from) == IF from <= threeChars THEN 0 ELSE from

\* Mutant of PostContextIndex: one more trailing byte is shown.
PostContextIndex_Wide(to, n) == IF to >= n - threeChars - 1 THEN n ELSE to

\* postContextIndex of Ellipsize; n is len(val).
PostContextIndex(to, n) == IF to >= n - threeChars THEN n ELSE to

\* val[a:b] is defined (Go panics otherwise).
SliceOk(a, b, n) == 0 <= a /\ a <= b /\ b <= n

\* Mutant of PreContext: the first branch leaves preContext as it was.
PreContext_Stale(g, from) ==
    IF from <= threeChars THEN g.preContext ELSE Ellipsis

\* Lines 174-179: the value Ellipsize assigns to preContext.
PreContext(g, from) == IF from <= threeChars THEN <<>> ELSE Ellipsis

\* Lines 181-186: the value Ellipsize assigns to postContext; n is len(val).
PostContext(g, to, n) == IF to >= n - threeChars THEN <<>> ELSE Ellipsis

\* Ellipsize(from, to, val) on the bytes of val, run with package state g:
\* the two package variables it sets, whether the slice expression panics,
\* and the string returned (line 187 reads the two variables back).
Ellipsize(g, from, to, val) ==
    LET a == PreContextIndex(from)
        b == PostContextIndex(to, Len(val))
        pre == PreContext(g, from)
        post == PostContext(g, to, Len(val))
        ok == SliceOk(a, b, Len(val))
    IN  [pre |-> pre, post |-> post, panic |-> ~ok,
         str |-> IF ok THEN pre \o SubSeq(val, a + 1, b) \o post ELSE <<>>]

\* ---------------------------------------------------------- TokenizeLine
\* builder.WriteRune(r)
WriteRune(g, r) == [g EXCEPT !.builder = Append(g.builder, r)]

\* Mutant of SkipSpace: line 102 missing, white space is never skipped.
SkipSpace_Never(g, head) == FALSE

\* Line 102: white space met with no quote open and nothing accumulated.
SkipSpace(g, head) ==
    g.lastQuoteRune = NoRune /\ IsSpace(head) /\ Len(g.builder) = 0

\* Mutant of EscapeInQuote: the backslash escapes either quote rune, as it
\* does outside a quote.
EscapeInQuote_AnyQuote(g, runes, k) ==
    /\ runes[k + 1] = quoteEscapeRune
    /\ k < Len(runes) - 1
    /\ IsQuoteRune(runes[k + 2])

\* Line 106: inside a quote, a backslash followed by the open quote rune.
EscapeInQuote(g, runes, k) ==
    /\ runes[k + 1] = quoteEscapeRune
    /\ k < Len(runes) - 1
    /\ runes[k + 2] = g.lastQuoteRune

\* Mutant of InQuote: the other quote rune opens a quote inside the quote.
InQuote_Nests(g, runes, k) ==
    LET head == runes[k + 1] IN
    IF EscapeInQuote(g, runes, k)
    THEN [g |-> WriteRune(g, g.lastQuoteRune), i |-> k + 2]
    ELSE IF head = g.lastQuoteRune
    THEN [g |-> [g EXCEPT !.lastQuoteRune = NoRune], i |-> k + 1]
    ELSE IF IsQuoteRune(head)
    THEN [g |-> [g EXCEPT !.lastQuoteRune = head, !.lastQuotePos = k],
          i |-> k + 1]
    ELSE [g |-> WriteRune(g, head), i |-> k + 1]

\* Mutant of InQuote: the closing quote rune is also written to the token.
InQuote_KeepsDelimiter(g, runes, k) ==
    LET head == runes[k + 1] IN
    IF EscapeInQuote(g, runes, k)
    THEN [g |-> WriteRune(g, g.lastQuoteRune), i |-> k + 2]
    ELSE IF head = g.lastQuoteRune
    THEN [g |-> WriteRune([g EXCEPT !.lastQuoteRune = NoRune], head),
          i |-> k + 1]
    ELSE [g |-> WriteRune(g, head), i |-> k + 1]

\* Lines 105-118: the loop body while a quote is open.
InQuote(g, runes, k) ==
    LET head == runes[k + 1] IN
    IF EscapeInQuote(g, runes, k)
    THEN [g |-> WriteRune(g, g.lastQuoteRune), i |-> k + 2]
    ELSE IF head = g.lastQuoteRune
    THEN [g |-> [g EXCEPT !.lastQuoteRune = NoRune], i |-> k + 1]
    ELSE [g |-> WriteRune(g, head), i |-> k + 1]

\* Mutant of EscapeOutsideQuote: only the first quote rune is escapable.
EscapeOutsideQuote_OnlyDouble(runes, k) ==
    /\ runes[k + 1] = quoteEscapeRune
    /\ k < Len(runes) - 1
    /\ runes[k + 2] = quoteRunes[1]

\* Lines 119-127: outside a quote, a backslash followed by a quote rune.
EscapeOutsideQuote(runes, k) ==
    /\ runes[k + 1] = quoteEscapeRune
    /\ k < Len(runes) - 1
    /\ IsQuoteRune(runes[k + 2])

\* Mutant of OpenQuote: the position of the quote is not recorded.
OpenQuote_KeepsPos(g, qr, k) == [g EXCEPT !.lastQuoteRune = qr]

\* Lines 129-135: a quote rune opens a quote.
OpenQuote(g, qr, k) == [g EXCEPT !.lastQuoteRune = qr, !.lastQuotePos = k]

\* Lines 137-141: white space ends the token.
FlushToken(g) ==
    [g EXCEPT !.tokenizedLines = Append(g.tokenizedLines, g.builder),
              !.builder = <<>>]

\* One iteration of the for loop at index k (lines 100-143), with the i++
\* that follows it: the package variables and the next index.
LoopBody(g, runes, k) ==
    LET head == runes[k + 1] IN
    IF SkipSpace(g, head) THEN [g |-> g, i |-> k + 1]
    ELSE IF g.lastQuoteRune # NoRune THEN InQuote(g, runes, k)
    ELSE IF EscapeOutsideQuote(runes, k)
    THEN [g |-> WriteRune(g, runes[k + 2]), i |-> k + 2]
    ELSE IF IsQuoteRune(head) THEN [g |-> OpenQuote(g, head, k), i |-> k + 1]
    ELSE IF IsSpace(head) /\ g.lastQuoteRune = NoRune
    THEN [g |-> FlushToken(g), i |-> k + 1]
    ELSE [g |-> WriteRune(g, head), i |-> k + 1]

\* Mutant of ErrorTokens: the tokens collected so far go with the error.
ErrorTokens_Partial(g) == g.tokenizedLines

\* The tokens returned with the error (line 150: return nil, ...).
ErrorTokens(g) == <<>>

\* Mutant of FinalFlush: the token pending at the end of input is dropped.
FinalFlush_Never(g) == g

\* Lines 152-154: the last token, if any, is appended (builder is not reset).
FinalFlush(g) ==
    IF Len(g.builder) > 0
    THEN [g EXCEPT !.tokenizedLines = Append(g.tokenizedLines, g.builder)]
    ELSE g

\* Lines 145-149: the arguments of the call of Ellipsize on the error path.
EllipsizeArgs(g, runes) ==
    [from |-> g.lastQuotePos - errUnterminatedQuote,
     to |-> g.lastQuotePos + errUnterminatedQuote + 1,
     val |-> Bytes(runes)]

\* Lines 144-155, the code after the loop: the package variables it leaves
\* and what the call returns.
AfterLoop(g, runes) ==
    IF g.lastQuoteRune # NoRune
    THEN LET args == EllipsizeArgs(g, runes)
             e == Ellipsize(g, args.from, args.to, args.val)
             g2 == [g EXCEPT !.preContext = e.pre, !.postContext = e.post]
         IN  [g |-> g2,
              ret |-> [panic |-> e.panic,
                       tokens |-> IF e.panic THEN <<>> ELSE ErrorTokens(g),
                       err |-> ~e.panic,
                       pos |-> IF e.panic THEN 0 ELSE g.lastQuotePos,
                       context |-> e.str]]
    ELSE LET g2 == FinalFlush(g)
         IN  [g |-> g2,
              ret |-> [panic |-> FALSE, tokens |-> g2.tokenizedLines,
                       err |-> FALSE, pos |-> 0, context |-> <<>>]]

RECURSIVE RunFrom(_, _, _)
\* A whole call run without interruption from package state g at index k.
RunFrom(g, runes, k) ==
    IF k < Len(runes)
    THEN LET s == LoopBody(g, runes, k) IN RunFrom(s.g, runes, s.i)
    ELSE AfterLoop(g, runes)

\* What TokenizeLine(runes) returns as the very first call of the process.
FreshResult(runes) == RunFrom(FreshG, runes, 0).ret

\* ---------------------------------------------------------------- inputs
\* The strings of at most n runes over the alphabet (none if n < 0).
Inputs(n) == UNION {[1..k -> Alphabet] : k \in 0..n}

\* The work a call on input costs.
Cost(input) == Len(input) + 1

NoPanic == \A p \in Procs : pc[p] # "panic"

\* No direct call of Ellipsize yet.
NoEll ==
    [called |-> FALSE, from |-> 0, to |-> 0, val |-> <<>>, str |-> <<>>,
     before |-> << <<>>, <<>> >>]

\* The empty string as a file name (the zero value of TempfileName).
NoName == 0

\* A RequestConfig with Go zero values; Body stands for len(rc.Body) > 0.
ZeroRC ==
    [Tempfile |-> FALSE, TempfileName |-> NoName, Body |-> FALSE,
     Verbose |-> FALSE]

\* No call on the RequestConfig yet.
NoOp ==
    [op |-> "none", force |-> FALSE, before |-> ZeroRC, fsBefore |-> {},
     attempted |-> FALSE, err |-> FALSE]

\* The names of the environment variables, the values os.Setenv accepts
\* and a value it rejects (one that holds a NUL byte).
EnvNames == {"A", "B"}
GoodValues == {"1", "2"}
BadValues == {"bad"}
Unset == "unset"

\* No call of GetTemplateFilenames yet.  nilList: the list returned is the
\* literal nil; viaPipe: the tokens of standard input.
NoGtf ==
    [called |-> FALSE, piped |-> FALSE, viaPipe |-> <<>>, names |-> <<>>,
     nilList |-> FALSE, err |-> FALSE]

\* No call of CaptureEditorOutput yet.  tokenized: TokenizeLine returned
\* without error; panic: the call did not return.
NoCap ==
    [called |-> FALSE, editorStr |-> <<>>, tokenized |-> FALSE,
     tokens |-> <<>>, panic |-> FALSE, err |-> FALSE]

\* No call of LoadEditedTemplateContent yet.  created: the temporary copy
\* was created; tempExists: it is still there after the call.
NoLoad ==
    [called |-> FALSE, created |-> FALSE, removeAttempted |-> FALSE,
     rmvFailed |-> FALSE, tempExists |-> FALSE, editErr |-> FALSE,
     retErr |-> FALSE, panic |-> FALSE]

\* The variables TokenizeLine does not touch, when the process starts.
InitAux ==
    /\ ellLast = NoEll
    /\ rc = ZeroRC
    /\ fs = {}
    /\ made = 0
    /\ rcLast = NoOp
    /\ env = [v \in EnvNames |-> Unset]
    /\ envOrig = [v \in EnvNames |-> Unset]
    /\ firstVal = [v \in EnvNames |-> Unset]
    /\ defs = [v \in EnvNames |-> 0]
    /\ reads = 0
    /\ envErr = FALSE
    /\ localTemplateFilenames = <<>>
    /\ gtfLast = NoGtf
    /\ capLast = NoCap
    /\ loadLast = NoLoad

\* --------------------------------------------------------------- actions
Init ==
    /\ tokenizedLines = FreshG.tokenizedLines
    /\ lastQuoteRune = FreshG.lastQuoteRune
    /\ lastQuotePos = FreshG.lastQuotePos
    /\ builder = FreshG.builder
    /\ preContext = FreshG.preContext
    /\ postContext = FreshG.postContext
    /\ pc = [p \in Procs |-> "idle"]
    /\ cmdline = [p \in Procs |-> <<>>]
    /\ i = [p \in Procs |-> 0]
    /\ ret = [p \in Procs |-> NoRet]
    /\ startedFresh = [p \in Procs |-> FALSE]
    /\ spent = 0
    /\ InitAux

\* Goroutine p calls TokenizeLine(input) (lines 96-99).
Call(p, input) ==
    /\ NoPanic
    /\ pc[p] \in {"idle", "done"}
    /\ spent + Cost(input) <= MaxWork
    /\ pc' = [pc EXCEPT ![p] = "scan"]
    /\ cmdline' = [cmdline EXCEPT ![p] = input]
    /\ i' = [i EXCEPT ![p] = 0]
    /\ startedFresh' = [startedFresh EXCEPT ![p] = (G = FreshG)]
    /\ spent' = spent + Cost(input)
    /\ UNCHANGED <<globals, ret, aux>>

\* Goroutine p runs one iteration of the loop (lines 100-143).
ScanStep(p) ==
    /\ NoPanic
    /\ pc[p] = "scan"
    /\ i[p] < Len(cmdline[p])
    /\ LET s == LoopBody(G, cmdline[p], i[p])
       IN  /\ SetG(s.g)
           /\ i' = [i EXCEPT ![p] = s.i]
    /\ UNCHANGED <<pc, cmdline, ret, startedFresh, spent, aux>>

\* Goroutine p leaves the loop and returns (lines 144-155).
Finish(p) ==
    /\ NoPanic
    /\ pc[p] = "scan"
    /\ i[p] >= Len(cmdline[p])
    /\ LET r == AfterLoop(G, cmdline[p])
       IN  /\ SetG(r.g)
           /\ ret' = [ret EXCEPT ![p] = r.ret]
           /\ pc' = [pc EXCEPT ![p] = IF r.ret.panic THEN "panic" ELSE "done"]
    /\ UNCHANGED <<cmdline, i, startedFresh, spent, aux>>

\* Sequential use: one goroutine calls TokenizeLine again and again.
Next ==
    \/ \E input \in Inputs(MaxWork - spent - 1) : Call(1, input)
    \/ ScanStep(1)
    \/ Finish(1)

Spec == Init /\ [][Next]_vars

\* Concurrent use: two goroutines call TokenizeLine, their loop iterations
\* interleaved.  (Go gives no atomicity even within an iteration: the finer
\* interleavings add behaviours, they remove none of these.)
NextConc ==
    \/ \E p \in Procs : \E input \in Inputs(MaxWork - spent - 1) : Call(p, input)
    \/ \E p \in Procs : ScanStep(p)
    \/ \E p \in Procs : Finish(p)

SpecConc == Init /\ [][NextConc]_vars

\* ------------------------------------------- long inputs, Ellipsize calls
\* The runes an input is padded with: one of one byte, one of two bytes.
PadRunes == {"a", "é"}

\* k times the rune c.
Pad(c, k) == [j \in 1..k |-> c]

\* Goroutine p calls TokenizeLine on body with k runes c before it and m
\* after it (the result of a direct call of Ellipsize made before is
\* dropped).
CallPadded(p, c, k, m, body) ==
    LET input == Pad(c, k) \o body \o Pad(c, m)
        cost == Cost(body) + (IF k + m > 0 THEN PadWork ELSE 0)
    IN  /\ NoPanic
        /\ pc[p] \in {"idle", "done"}
        /\ spent + cost <= MaxLongWork
        /\ pc' = [pc EXCEPT ![p] = "scan"]
        /\ cmdline' = [cmdline EXCEPT ![p] = input]
        /\ i' = [i EXCEPT ![p] = 0]
        /\ startedFresh' = [startedFresh EXCEPT ![p] = (G = FreshG)]
        /\ spent' = spent + cost
        /\ ellLast' = NoEll
        /\ UNCHANGED <<globals, ret, rcVars, envVars, gtfVars, editVars>>

\* The texts of the direct calls of Ellipsize: for every length a text
\* whose bytes all differ, and the text of the documented example.
Digits == <<"0", "1", "2", "3", "4", "5", "6", "7", "8", "9">>
HelloWorld == <<"h", "e", "l", "l", "o", " ", "w", "o", "r", "l", "d">>
Texts == {SubSeq(Digits, 1, n) : n \in 0..MaxText} \cup {HelloWorld}

\* Between two calls of TokenizeLine the goroutine calls
\* Ellipsize(from, to, val) itself, within the documented precondition
\* 0 <= from <= to <= len(val).
EllipsizeCall(from, to, val) ==
    /\ NoPanic
    /\ pc[1] \in {"idle", "done"}
    /\ spent + EllWork <= MaxLongWork
    /\ LET e == Ellipsize(G, from, to, val)
       IN  /\ preContext' = e.pre
           /\ postContext' = e.post
           /\ ellLast' = [called |-> TRUE, from |-> from, to |-> to,
                          val |-> val, str |-> e.str,
                          before |-> <<preContext, postContext>>]
    /\ spent' = spent + EllWork
    /\ UNCHANGED <<tokenizedLines, lastQuoteRune, lastQuotePos, builder,
                   pc, cmdline, i, ret, startedFresh, rcVars, envVars,
                   gtfVars, editVars>>

NextLong ==
    \/ \E body \in Inputs(MaxLongWork - spent - 1) :
          CallPadded(1, "a", 0, 0, body)
    \/ \E c \in PadRunes : \E k, m \in 0..MaxPad :
          \E body \in Inputs(MaxLongWork - spent - PadWork - 1) :
              k + m > 0 /\ CallPadded(1, c, k, m, body)
    \/ ScanStep(1)
    \/ Finish(1)
    \/ \E val \in Texts : \E from, to \in 0..Len(val) :
          from <= to /\ EllipsizeCall(from, to, val)
    \/ EllipsizeCall(0, 5, HelloWorld)

SpecLong == Init /\ [][NextLong]_vars

\* ------------------------------------- RequestConfig (request_config.go)
\* The variables of TokenizeLine and of the callers of Ellipsize.
tokVars ==
    <<tokenizedLines, lastQuoteRune, lastQuotePos, builder, preContext,
      postContext, pc, cmdline, i, ret, startedFresh, spent, ellVars>>

\* The program fills in the fields of the RequestConfig.
SetConfig(t, b, v) ==
    /\ rc' = [rc EXCEPT !.Tempfile = t, !.Body = b, !.Verbose = v]
    /\ rcLast' = NoOp
    /\ UNCHANGED <<fs, made, tokVars, envVars, gtfVars, editVars>>

\* How far CreateBodyTempfile gets: os.Getwd fails (line 26), os.CreateTemp
\* fails (line 35), Write fails (line 38), Close fails (line 44), or none.
CreateOutcomes(c) ==
    (IF c.Verbose THEN {"getwd"} ELSE {}) \cup
        {"create", "write", "close", "ok"}

\* Lines 18-48.
CreateBodyTempfile ==
    IF ~rc.Body
    THEN /\ rcLast' = [NoOp EXCEPT !.op = "create", !.before = rc,
                                   !.fsBefore = fs]
         /\ UNCHANGED <<rc, fs, made, tokVars, envVars, gtfVars, editVars>>
    ELSE /\ made < MaxFiles
         /\ \E out \in CreateOutcomes(rc) :
              LET name == made + 1
                  file == out \in {"write", "close", "ok"}
                  named == out \in {"close", "ok"}
              IN  /\ fs' = IF file THEN fs \cup {name} ELSE fs
                  /\ made' = IF file THEN name ELSE made
                  /\ rc' = IF named
                           THEN [rc EXCEPT !.TempfileName = name]
                           ELSE rc
                  /\ rcLast' = [NoOp EXCEPT !.op = "create", !.before = rc,
                                            !.fsBefore = fs,
                                            !.err = (out # "ok")]
         /\ UNCHANGED <<tokVars, envVars, gtfVars, editVars>>

\* Mutant of RemoveAttempted: Tempfile protects the file from force too.
RemoveAttempted_IgnoresForce(c, force) ==
    c.TempfileName # NoName /\ ~c.Tempfile

\* Lines 64-69: RemoveBodyTempfile gets as far as os.Remove.
RemoveAttempted(c, force) ==
    ~(c.TempfileName = NoName) /\ ~(~force /\ c.Tempfile)

\* Lines 63-73; os.Remove fails when the file is not there, and may fail
\* when it is.
RemoveBodyTempfile(force) ==
    /\ IF ~RemoveAttempted(rc, force)
       THEN /\ rcLast' = [NoOp EXCEPT !.op = "remove", !.force = force,
                                      !.before = rc, !.fsBefore = fs]
            /\ UNCHANGED <<rc, fs>>
       ELSE \E removed \in BOOLEAN :
              /\ removed => rc.TempfileName \in fs
              /\ fs' = IF removed THEN fs \ {rc.TempfileName} ELSE fs
              /\ rc' = [rc EXCEPT !.TempfileName = NoName]
              /\ rcLast' = [NoOp EXCEPT !.op = "remove", !.force = force,
                                        !.before = rc, !.fsBefore = fs,
                                        !.attempted = TRUE,
                                        !.err = ~removed]
    /\ UNCHANGED <<made, tokVars, envVars, gtfVars, editVars>>

NextRC ==
    \/ \E t, b, v \in BOOLEAN : SetConfig(t, b, v)
    \/ CreateBodyTempfile
    \/ \E force \in BOOLEAN : RemoveBodyTempfile(force)

SpecRC == Init /\ [][NextRC]_vars

\* --------------------------------------------- ReadEnviromentFile (env.go)
\* What envparse.Parse can return (line 35): a map from some of the names
\* to values.
ParsedFiles ==
    UNION {[D -> GoodValues \cup BadValues] : D \in SUBSET EnvNames}

\* The orders in which the range loop of line 39 can visit the keys D.
Orders(D) ==
    {o \in [1..Cardinality(D) -> D] :
        \A j, k \in 1..Cardinality(D) : j # k => o[j] # o[k]}

RECURSIVE SetAll(_, _, _)
\* Lines 39-45: the loop over the parsed map in the given order; it stops
\* at the first os.Setenv that fails.
SetAll(e, res, order) ==
    IF order = <<>>
    THEN [env |-> e, err |-> FALSE]
    ELSE LET varkey == Head(order)
         IN  IF e[varkey] # Unset
             THEN SetAll(e, res, Tail(order))
             ELSE IF res[varkey] \in BadValues
                  THEN [env |-> e, err |-> TRUE]
                  ELSE SetAll([e EXCEPT ![varkey] = res[varkey]], res,
                              Tail(order))

\* Before its first call of ReadEnviromentFile the process finds variable
\* k set to v.
PresetEnv(k, v) ==
    /\ reads = 0
    /\ env[k] = Unset
    /\ env' = [env EXCEPT ![k] = v]
    /\ envOrig' = [envOrig EXCEPT ![k] = v]
    /\ UNCHANGED <<firstVal, defs, reads, envErr, tokVars, rcVars, gtfVars, editVars>>

\* Lines 24-33 and 36-37: the file is missing, cannot be opened or cannot
\* be parsed; nothing is set.
ReadEnviromentFileFails(kind, errorMissingFile) ==
    /\ reads < MaxReads
    /\ reads' = reads + 1
    /\ envErr' = IF kind = "missing" THEN errorMissingFile ELSE TRUE
    /\ UNCHANGED <<env, envOrig, firstVal, defs, tokVars, rcVars, gtfVars, editVars>>

\* Lines 23-48 for a file that parses to res, visited in the given order.
ReadEnviromentFile(res, order) ==
    /\ reads < MaxReads
    /\ reads' = reads + 1
    /\ LET r == SetAll(env, res, order)
       IN  /\ env' = r.env
           /\ envErr' = r.err
    /\ firstVal' = [v \in EnvNames |->
                       IF firstVal[v] = Unset /\ v \in DOMAIN res
                       THEN res[v] ELSE firstVal[v]]
    /\ defs' = [v \in EnvNames |->
                   IF v \in DOMAIN res THEN defs[v] + 1 ELSE defs[v]]
    /\ UNCHANGED <<envOrig, tokVars, rcVars, gtfVars, editVars>>

NextEnv ==
    \/ \E k \in EnvNames : \E v \in GoodValues : PresetEnv(k, v)
    \/ \E kind \in {"missing", "open", "parse"} :
          \E errorMissingFile \in BOOLEAN :
              ReadEnviromentFileFails(kind, errorMissingFile)
    \/ \E res \in ParsedFiles : \E order \in Orders(DOMAIN res) :
          ReadEnviromentFile(res, order)

SpecEnv == Init /\ [][NextEnv]_vars

\* ----------------------------------------- GetTemplateFilenames (filename.go)
\* What flag.Args() can hold: nothing, or one file name.
ArgLists == {<<>>, << <<"a">> >>}

\* Lines 37-39.
AfterArgs(args) ==
    IF Len(args) >= 1 THEN args ELSE localTemplateFilenames

\* Lines 36-59 when standard input is not read to the end: Stat fails
\* (line 41), standard input is a terminal (line 44), or ReadAll fails
\* (line 46).
GetTemplateFilenamesNoPipe(args, stdin) ==
    /\ NoPanic
    /\ pc[1] \in {"idle", "done"}
    /\ localTemplateFilenames' = AfterArgs(args)
    /\ gtfLast' = IF stdin = "terminal"
                  THEN [NoGtf EXCEPT !.called = TRUE,
                                     !.names = AfterArgs(args)]
                  ELSE [NoGtf EXCEPT !.called = TRUE,
                                     !.piped = (stdin = "readerr"),
                                     !.nilList = TRUE, !.err = TRUE]
    /\ UNCHANGED <<tokVars, rcVars, envVars, editVars>>

\* Line 54: errors.Wrap(err, ...) is nil when err is nil.
WrapIsError(err) == err

\* Lines 36-59 when standard input is piped and holds content: the call
\* of TokenizeLine on line 49 runs on the package variables of pkg.
GetTemplateFilenamesPiped(args, content) ==
    /\ NoPanic
    /\ pc[1] \in {"idle", "done"}
    /\ spent + Cost(content) <= MaxPipeWork
    /\ spent' = spent + Cost(content)
    /\ LET r == RunFrom(G, content, 0)
           viaPipe == r.ret.tokens
           last == [NoGtf EXCEPT !.called = TRUE, !.piped = TRUE,
                                 !.viaPipe = viaPipe]
       IN  /\ SetG(r.g)
           /\ pc' = IF r.ret.panic THEN [pc EXCEPT ![1] = "panic"] ELSE pc
           /\ localTemplateFilenames' = AfterArgs(args)
           /\ gtfLast' =
                  IF r.ret.panic
                  THEN NoGtf
                  ELSE IF r.ret.err
                  THEN [last EXCEPT !.nilList = TRUE, !.err = TRUE]
                  ELSE IF Len(viaPipe) > 0
                  THEN [last EXCEPT !.nilList = TRUE,
                                    !.err = WrapIsError(r.ret.err)]
                  ELSE [last EXCEPT !.names = AfterArgs(args) \o viaPipe]
    /\ UNCHANGED <<cmdline, i, ret, startedFresh, ellVars, rcVars, envVars,
                   editVars>>

NextFiles ==
    \/ \E args \in ArgLists : \E stdin \in {"staterr", "terminal", "readerr"} :
          GetTemplateFilenamesNoPipe(args, stdin)
    \/ \E args \in ArgLists : \E content \in Inputs(MaxPipeWork - spent - 1) :
          GetTemplateFilenamesPiped(args, content)

SpecFiles == Init /\ [][NextFiles]_vars

\* ------------------------------------------------ editing a copy (read.go)
fallbackEditor == <<"c", "o", "d", "e">>

\* Lines 41-54: the editor string, from VISUAL, else EDITOR, else the
\* fallback; the empty string stands for a variable that is not set.
EditorString(visual, editor) ==
    IF visual # <<>> THEN visual
    ELSE IF editor # <<>> THEN editor
    ELSE fallbackEditor

\* Lines 47-51: no editor is configured and the fallback is not installed.
NoEditor(visual, editor, lookOk) ==
    visual = <<>> /\ editor = <<>> /\ ~lookOk

\* What VISUAL and EDITOR can hold: at most one of them a string of at
\* most n runes.
EditorEnvs(n) ==
    {<<v, <<>> >> : v \in Inputs(n)} \cup {<<<<>>, e>> : e \in Inputs(n)}

\* How the call goes on after the editor was started: cmd.Run fails (line
\* 65), Seek fails (line 69), ReadAll fails (line 73), or none.
EditOutcomes == {"run", "seek", "read", "ok"}

\* Lines 59-60: editorCmdArgs[1:] and editorCmdArgs[0] are defined (Go
\* panics otherwise).
TokensUsable(tokens) == Len(tokens) >= 1

\* Lines 40-77 from package state g: the package state the call leaves and
\* what it returns.
Capture(g, visual, editor, lookOk, out) ==
    LET str == EditorString(visual, editor)
        base == [NoCap EXCEPT !.called = TRUE, !.editorStr = str]
    IN  IF NoEditor(visual, editor, lookOk)
        THEN [g |-> g, last |-> [base EXCEPT !.err = TRUE]]
        ELSE LET r == RunFrom(g, str, 0)
             IN  IF r.ret.panic
                 THEN [g |-> r.g, last |-> [base EXCEPT !.panic = TRUE]]
                 ELSE IF r.ret.err
                 THEN [g |-> r.g, last |-> [base EXCEPT !.err = TRUE]]
                 ELSE [g |-> r.g,
                       last |-> [base EXCEPT
                                    !.tokenized = TRUE,
                                    !.tokens = r.ret.tokens,
                                    !.panic = ~TokensUsable(r.ret.tokens),
                                    !.err = TokensUsable(r.ret.tokens)
                                                /\ out # "ok"]]

\* The work a call of CaptureEditorOutput costs.
CaptureCost(visual, editor, lookOk) ==
    IF NoEditor(visual, editor, lookOk)
    THEN 1
    ELSE Cost(EditorString(visual, editor))

\* The program calls CaptureEditorOutput on a file of its own.
CaptureEditorOutput(visual, editor, lookOk, out) ==
    /\ NoPanic
    /\ pc[1] \in {"idle", "done"}
    /\ spent + CaptureCost(visual, editor, lookOk) <= MaxEditWork
    /\ spent' = spent + CaptureCost(visual, editor, lookOk)
    /\ LET c == Capture(G, visual, editor, lookOk, out)
       IN  /\ SetG(c.g)
           /\ capLast' = c.last
           /\ pc' = IF c.last.panic THEN [pc EXCEPT ![1] = "panic"] ELSE pc
    /\ UNCHANGED <<cmdline, i, ret, startedFresh, ellVars, rcVars, envVars,
                   gtfVars, loadLast>>

\* Lines 103-112 and the return statements: the results of
\* LoadEditedTemplateContent are not named, so the error the deferred
\* function assigns to the local variable err is not what the caller gets.
ReturnedErr(errAtReturn, rmvFailed) == errAtReturn

\* Lines 91-101: os.Open or os.CreateTemp fails; no copy is created.
LoadEditedTemplateContentFails ==
    /\ NoPanic
    /\ pc[1] \in {"idle", "done"}
    /\ loadLast' = [NoLoad EXCEPT !.called = TRUE, !.retErr = TRUE]
    /\ UNCHANGED <<tokVars, rcVars, envVars, gtfVars, capLast>>

\* Lines 103-117: the copy is created, io.Copy fails; the deferred
\* function runs os.Remove.
LoadEditedTemplateContentCopyFails(removeOk) ==
    /\ NoPanic
    /\ pc[1] \in {"idle", "done"}
    /\ loadLast' = [NoLoad EXCEPT !.called = TRUE, !.created = TRUE,
                                  !.removeAttempted = TRUE,
                                  !.rmvFailed = ~removeOk,
                                  !.tempExists = ~removeOk,
                                  !.editErr = TRUE,
                                  !.retErr = ReturnedErr(TRUE, ~removeOk)]
    /\ UNCHANGED <<tokVars, rcVars, envVars, gtfVars, capLast>>

\* Lines 91-120 when the copy is created and filled: CaptureEditorOutput
\* runs, then the deferred function runs os.Remove (also when the call
\* panics).
LoadEditedTemplateContent(visual, editor, lookOk, out, removeOk) ==
    /\ NoPanic
    /\ pc[1] \in {"idle", "done"}
    /\ spent + CaptureCost(visual, editor, lookOk) <= MaxEditWork
    /\ spent' = spent + CaptureCost(visual, editor, lookOk)
    /\ LET c == Capture(G, visual, editor, lookOk, out)
       IN  /\ SetG(c.g)
           /\ capLast' = c.last
           /\ pc' = IF c.last.panic THEN [pc EXCEPT ![1] = "panic"] ELSE pc
           /\ loadLast' =
                  [NoLoad EXCEPT
                      !.called = TRUE, !.created = TRUE,
                      !.removeAttempted = TRUE,
                      !.rmvFailed = ~removeOk,
                      !.tempExists = ~removeOk,
                      !.editErr = c.last.err,
                      !.panic = c.last.panic,
                      !.retErr = ~c.last.panic
                                    /\ ReturnedErr(c.last.err, ~removeOk)]
    /\ UNCHANGED <<cmdline, i, ret, startedFresh, ellVars, rcVars, envVars,
                   gtfVars>>

NextEdit ==
    \/ \E env2 \in EditorEnvs(MaxEditWork - spent - 1) :
          \E lookOk \in BOOLEAN : \E out \in EditOutcomes :
              CaptureEditorOutput(env2[1], env2[2], lookOk, out)
    \/ LoadEditedTemplateContentFails
    \/ \E removeOk \in BOOLEAN : LoadEditedTemplateContentCopyFails(removeOk)
    \/ \E env2 \in EditorEnvs(MaxEditWork - spent - 1) :
          \E lookOk, removeOk \in BOOLEAN : \E out \in EditOutcomes :
              LoadEditedTemplateContent(env2[1], env2[2], lookOk, out,
                                        removeOk)

SpecEdit == Init /\ [][NextEdit]_vars





\* ------------------------------------------------ reference definitions
\* What the claims speak of, defined on the input alone.

DQ == "\""
SQ == "'"
BS == "\\"
SP == " "

RECURSIVE OpenQuoteFrom(_, _, _, _)
\* The quote left open when s is exhausted, reading s from 0-based index k
\* with quote `open` (opened at index `at`) open: a quote rune opens a quote
\* unless a backslash escapes it, the same rune closes it unless a
\* backslash escapes it.
OpenQuoteFrom(s, k, open, at) ==
    IF k >= Len(s) THEN [open |-> open, at |-> at]
    ELSE LET c == s[k + 1]
             escaped == /\ c = BS
                        /\ k + 2 <= Len(s)
                        /\ IF open = NoRune THEN s[k + 2] \in {DQ, SQ}
                                            ELSE s[k + 2] = open
         IN  IF escaped THEN OpenQuoteFrom(s, k + 2, open, at)
             ELSE IF open = NoRune /\ c \in {DQ, SQ}
             THEN OpenQuoteFrom(s, k + 1, c, k)
             ELSE IF open # NoRune /\ c = open
             THEN OpenQuoteFrom(s, k + 1, NoRune, at)
             ELSE OpenQuoteFrom(s, k + 1, open, at)

OpenQuoteAtEnd(s) == OpenQuoteFrom(s, 0, NoRune, 0)

HasQuote(s) == \E k \in 1..Len(s) : s[k] \in {DQ, SQ}
HasBackslash(s) == \E k \in 1..Len(s) : s[k] = BS
OnlySpace(s) == \A k \in 1..Len(s) : s[k] = SP

\* The k-th smallest element of a set of numbers.
Nth(S, k) == CHOOSE x \in S : Cardinality({y \in S : y < x}) = k - 1

\* The maximal runs of positions of s that satisfy In(_), as pairs
\* <<first, last>>, from left to right.
Runs(s, In(_)) ==
    LET starts == {k \in 1..Len(s) : In(k) /\ (k = 1 \/ ~In(k - 1))}
        last(k) == CHOOSE j \in k..Len(s) :
                       /\ \A m \in k..j : In(m)
                       /\ (j = Len(s) \/ ~In(j + 1))
    IN  [n \in 1..Cardinality(starts) |->
            <<Nth(starts, n), last(Nth(starts, n))>>]

\* The white-space-delimited fields of s.
Fields(s) ==
    LET NotSpace(k) == s[k] # SP
        r == Runs(s, NotSpace)
    IN  [n \in 1..Len(r) |-> SubSeq(s, r[n][1], r[n][2])]

RECURSIVE QuoteClass(_, _, _)
\* For a string without backslash: the role of each rune from position k
\* on, `open` being the quote open there: "delim" (a quote rune that opens
\* or closes a span), "quoted" (inside a span), "sep" (white space outside
\* any span), "plain" (any other rune outside a span).
QuoteClass(s, k, open) ==
    IF k > Len(s) THEN <<>>
    ELSE IF open = NoRune
    THEN IF s[k] \in {DQ, SQ} THEN <<"delim">> \o QuoteClass(s, k + 1, s[k])
         ELSE IF s[k] = SP THEN <<"sep">> \o QuoteClass(s, k + 1, NoRune)
         ELSE <<"plain">> \o QuoteClass(s, k + 1, NoRune)
    ELSE IF s[k] = open THEN <<"delim">> \o QuoteClass(s, k + 1, NoRune)
         ELSE <<"quoted">> \o QuoteClass(s, k + 1, open)

\* The quotes of s (a string without backslash) are properly matched.
Matched(s) ==
    LET c == QuoteClass(s, 1, NoRune)
    IN  Cardinality({k \in 1..Len(s) : c[k] = "delim"}) % 2 = 0

\* The words of s: between two separators, the runes that are no
\* delimiters (quoted white space included), one sequence per word.
Words(s) ==
    LET c == QuoteClass(s, 1, NoRune)
        NotSep(k) == c[k] # "sep"
        r == Runs(s, NotSep)
        content(a, b) ==
            LET keep == {k \in a..b : c[k] # "delim"}
            IN  [n \in 1..Cardinality(keep) |-> s[Nth(keep, n)]]
    IN  [n \in 1..Len(r) |-> content(r[n][1], r[n][2])]

NonEmpty(t) == t # <<>>

\* Goroutine p has returned from a call that began in the initial state.
FreshDone(p) == pc[p] = "done" /\ startedFresh[p]

\* ---------------------------------------------------------------- claims

\* C1: call independence: whatever calls came before, TokenizeLine(x)
\* returns the tokens and the error it returns as the first call of the
\* process.
C1_CallIndependence ==
    pc[1] \in {"done", "panic"} => ret[1] = FreshResult(cmdline[1])

\* C2: a call that starts from fresh state fails exactly when a quote
\* opened by an unescaped quote rune is still open at the end of the
\* input, and the position reported is the index of that opening quote.
C2_ErrorIffOpenQuote ==
    FreshDone(1) =>
        LET q == OpenQuoteAtEnd(cmdline[1])
        IN  /\ ret[1].err <=> (q.open # NoRune)
            /\ ret[1].err => ret[1].pos = q.at

\* C2 witness: a span was closed, a later quote stays open, and its
\* position is the one reported.
C2_Witness ==
    /\ FreshDone(1)
    /\ cmdline[1] = <<DQ, DQ, "a", SQ>>
    /\ ret[1].err
    /\ ret[1].pos = 3

\* C3: without quote runes, a call from fresh state succeeds and returns
\* the white-space-delimited fields of its input, in order.
C3_FieldsWithoutQuotes ==
    (FreshDone(1) /\ ~HasQuote(cmdline[1])) =>
        /\ ~ret[1].err
        /\ ret[1].tokens = Fields(cmdline[1])

\* C3 witness: leading, repeated and trailing white space around two fields.
C3_Witness ==
    /\ FreshDone(1)
    /\ cmdline[1] = <<SP, "a", SP, SP, BS>>
    /\ ret[1].tokens = << <<"a">>, <<BS>> >>

\* C4: with matched quotes and no backslash, a call from fresh state
\* succeeds; its tokens hold every rune but the delimiters and the
\* separators, and each word (quoted white space and adjacent unquoted
\* runes included) is one token.
C4_MatchedQuotes ==
    (FreshDone(1) /\ ~HasBackslash(cmdline[1]) /\ Matched(cmdline[1])) =>
        /\ ~ret[1].err
        /\ SelectSeq(ret[1].tokens, NonEmpty)
               = SelectSeq(Words(cmdline[1]), NonEmpty)

\* C4 witness: a quoted space between two unquoted runes gives one token.
C4_Witness ==
    /\ FreshDone(1)
    /\ cmdline[1] = <<"a", DQ, SP, DQ, "a">>
    /\ ret[1].tokens = << <<"a", SP, "a">> >>

\* C5: on the empty string and on white space alone TokenizeLine returns
\* no token and no error.
C5_EmptyInput ==
    (pc[1] \in {"done", "panic"} /\ OnlySpace(cmdline[1])) =>
        /\ pc[1] = "done"
        /\ ~ret[1].err
        /\ ret[1].tokens = <<>>

\* C6: of two concurrent calls, each returns what it returns when run
\* alone (both start while the package state is still the initial one).
C6_ThreadSafe ==
    \A p \in Procs :
        (pc[p] \in {"done", "panic"} /\ startedFresh[p]) =>
            ret[p] = FreshResult(cmdline[p])

\* The loop of goroutine 1 is about to read a backslash.
AtBackslash ==
    /\ pc[1] = "scan"
    /\ i[1] < Len(cmdline[1])
    /\ cmdline[1][i[1] + 1] = BS

\* The rune after the one the loop of goroutine 1 is about to read.
NextIs(S) == i[1] + 2 <= Len(cmdline[1]) /\ cmdline[1][i[1] + 2] \in S

\* C7: while a quote is open, a backslash before the rune that opened it
\* appends that rune, consumes both and leaves the quote open; any other
\* backslash is appended as it is and the next rune is read normally.
C7_EscapeInsideQuote ==
    [][(AtBackslash /\ lastQuoteRune # NoRune) =>
          /\ lastQuoteRune' = lastQuoteRune
          /\ tokenizedLines' = tokenizedLines
          /\ IF NextIs({lastQuoteRune})
             THEN builder' = Append(builder, lastQuoteRune)
                  /\ i'[1] = i[1] + 2
             ELSE builder' = Append(builder, BS)
                  /\ i'[1] = i[1] + 1]_vars

\* C7 witness: the loop has just consumed a backslash and the open quote
\* rune, which is now the last rune of the token being built.
C7_Witness ==
    /\ pc[1] = "scan"
    /\ lastQuoteRune # NoRune
    /\ i[1] >= 2
    /\ cmdline[1][i[1] - 1] = BS
    /\ cmdline[1][i[1]] = lastQuoteRune
    /\ builder # <<>>
    /\ builder[Len(builder)] = lastQuoteRune

\* C8: while no quote is open, a backslash before either quote rune
\* appends that rune, consumes both and opens no quote; any other
\* backslash (the last rune of the input included) is appended as it is.
C8_EscapeOutsideQuote ==
    [][(AtBackslash /\ lastQuoteRune = NoRune) =>
          /\ lastQuoteRune' = NoRune
          /\ tokenizedLines' = tokenizedLines
          /\ IF NextIs({DQ, SQ})
             THEN builder' = Append(builder, cmdline[1][i[1] + 2])
                  /\ i'[1] = i[1] + 2
             ELSE builder' = Append(builder, BS)
                  /\ i'[1] = i[1] + 1]_vars

\* C8 witness: outside any quote the loop has just consumed a backslash
\* and a single quote, which is now the last rune of the token being built.
C8_Witness ==
    /\ pc[1] = "scan"
    /\ lastQuoteRune = NoRune
    /\ i[1] >= 2
    /\ cmdline[1][i[1] - 1] = BS
    /\ cmdline[1][i[1]] = SQ
    /\ builder # <<>>
    /\ builder[Len(builder)] = SQ

\* The input of goroutine 1 begins with an empty quoted span followed by
\* white space.
EmptySpanThenSpace ==
    /\ Len(cmdline[1]) >= 3
    /\ cmdline[1][1] \in {DQ, SQ}
    /\ cmdline[1][2] = cmdline[1][1]
    /\ cmdline[1][3] = SP

\* C9 as stated: an empty quoted span closed on an empty accumulator and
\* followed by white space is emitted as an empty token.
C9_EmptySpanEmitsEmptyToken ==
    (FreshDone(1) /\ EmptySpanThenSpace /\ ~ret[1].err) =>
        /\ Len(ret[1].tokens) >= 1
        /\ ret[1].tokens[1] = <<>>

\* C9 as amended: such a span emits no token.  White space read while no
\* quote is open and the accumulator is empty (as it is right after an
\* empty span closed) is skipped: nothing is collected, the accumulator
\* stays empty.  So calls made one after another never collect or return
\* an empty token.
C9_EmptySpanEmitsNothing ==
    /\ [](/\ \A k \in 1..Len(tokenizedLines) : tokenizedLines[k] # <<>>
          /\ \A k \in 1..Len(ret[1].tokens) : ret[1].tokens[k] # <<>>)
    /\ [][(/\ pc[1] = "scan"
           /\ i[1] < Len(cmdline[1])
           /\ cmdline[1][i[1] + 1] = SP
           /\ lastQuoteRune = NoRune
           /\ builder = <<>>) =>
              /\ tokenizedLines' = tokenizedLines
              /\ builder' = <<>>
              /\ lastQuoteRune' = NoRune
              /\ i'[1] = i[1] + 1]_vars

\* C9 witness: two double quotes, a space and the letter a give the one
\* token a.
C9_Witness ==
    /\ FreshDone(1)
    /\ cmdline[1] = <<DQ, DQ, SP, "a">>
    /\ ret[1].tokens = << <<"a">> >>

\* C10: a call that fails with an unterminated quote returns no tokens,
\* whatever was collected before.
C10_NoTokensOnError ==
    (pc[1] = "done" /\ ret[1].err) => ret[1].tokens = <<>>

\* C10 witness: the call failed after a token had been completed.
C10_Witness ==
    /\ pc[1] = "done"
    /\ ret[1].err
    /\ cmdline[1] = <<"a", SP, DQ>>
    /\ tokenizedLines = << <<"a">> >>

\* The result the documented rules of Ellipsize give for valid arguments:
\* where the excerpt starts and ends, and which markers it carries.
Excerpt(from, to, val) ==
    LET n == Len(val)
        start == IF from <= 3 THEN 0 ELSE from
        end == IF to >= n - 3 THEN n ELSE to
        lead == IF from <= 3 THEN <<>> ELSE Ellipsis
        trail == IF to >= n - 3 THEN <<>> ELSE Ellipsis
    IN  lead \o SubSeq(val, start + 1, end) \o trail

BytesBetween(val, lo, hi) ==
    {val[j] : j \in {j \in 1..Len(val) : lo < j /\ j <= hi}}

\* The bytes of the result of the direct call.
ResultBytes == {ellLast.str[j] : j \in 1..Len(ellLast.str)}

\* The direct call was made on one of the texts whose bytes all differ.
OnDigits == ellLast.called /\ ellLast.val # HelloWorld

AboutToEllipsize ==
    /\ pc[1] = "scan"
    /\ i[1] >= Len(cmdline[1])
    /\ lastQuoteRune # NoRune

\* C13: every call TokenizeLine makes to Ellipsize has arguments with
\* 0 <= from <= to <= len(text).
C13_CallerClamps ==
    AboutToEllipsize =>
        LET args == EllipsizeArgs(G, cmdline[1])
        IN  /\ 0 <= args.from
            /\ args.from <= args.to
            /\ args.to <= Len(args.val)

\* The byte of the quote that the error reports as unterminated.
ReportedQuote == cmdline[1][ret[1].pos + 1]

\* C14: the excerpt in the unterminated-quote error of a call from the
\* fresh state contains the opening quote, also when multi-byte
\* characters precede the quote.
C14_ExcerptHasQuote ==
    (FreshDone(1) /\ ret[1].err) =>
        \E j \in 1..Len(ret[1].context) : ret[1].context[j] = ReportedQuote

\* C15: the excerpt in the error of a call from the fresh state is at
\* most 13 bytes long.
C15_ExcerptBounded ==
    (FreshDone(1) /\ ret[1].err) => Len(ret[1].context) <= 13

\* C15 witness: a quote with seven runes on either side was reported with
\* an excerpt of 13 bytes.
C15_Witness ==
    /\ FreshDone(1)
    /\ ret[1].err
    /\ cmdline[1] = Pad("a", 7) \o <<DQ>> \o Pad("a", 7)
    /\ Len(ret[1].context) = 13

\* C16: whatever calls of Ellipsize and TokenizeLine came before, the
\* result of Ellipsize(from, to, text) depends on its three arguments
\* only: it is what the call returns in the initial package state.
C16_EllipsizeDeterministic ==
    ellLast.called =>
        ellLast.str =
            Ellipsize(FreshG, ellLast.from, ellLast.to, ellLast.val).str

\* C16 witness: a direct call that found both markers set by an earlier
\* call returned a result without markers.
C16_Witness ==
    /\ ellLast.called
    /\ ellLast.before = <<Ellipsis, Ellipsis>>
    /\ ellLast.str = ellLast.val
    /\ Len(ellLast.val) > 0

\* The runes of t are neither quotes nor white space nor backslashes.
Plain(t) ==
    \A j \in 1..Len(t) :
        ~IsQuoteRune(t[j]) /\ ~IsSpace(t[j]) /\ t[j] # quoteEscapeRune

\* C17: for a non-empty token t without quote, white space and backslash
\* TokenizeLine(t) returns exactly [t] and no error.
C17_PlainTokenAlone ==
    (pc[1] = "done" /\ Len(cmdline[1]) > 0 /\ Plain(cmdline[1])) =>
        /\ ~ret[1].err
        /\ ret[1].tokens = <<cmdline[1]>>

C19_FirstValueKept ==
    \A v \in EnvNames :
        /\ envOrig[v] # Unset => env[v] = envOrig[v]
        /\ (envOrig[v] = Unset /\ defs[v] >= 2 /\ firstVal[v] \in GoodValues)
               => env[v] = firstVal[v]

\* The token t is one of the names returned by GetTemplateFilenames.
Returned(t) == \E j \in 1..Len(gtfLast.names) : gtfLast.names[j] = t

\* C20: when standard input is piped and tokenizes to at least one file
\* name, GetTemplateFilenames returns a list that contains those names or
\* an error, never the nil list with a nil error.
C20_PipedNamesOrError ==
    (gtfLast.called /\ gtfLast.piped /\ Len(gtfLast.viaPipe) > 0) =>
        \/ gtfLast.err
        \/ /\ ~gtfLast.nilList
           /\ \A j \in 1..Len(gtfLast.viaPipe) : Returned(gtfLast.viaPipe[j])

\* C21: no call in a sequence of TokenizeLine calls aborts with a slice
\* out of range: when the error path calls Ellipsize, the indices it
\* slices the input with satisfy 0 <= start <= end <= len(input), also
\* after an earlier call on a longer input ended with an open quote.
C21_SliceInRange ==
    AboutToEllipsize =>
        LET args == EllipsizeArgs(G, cmdline[1])
            n == Len(args.val)
        IN  SliceOk(PreContextIndex(args.from),
                    PostContextIndex(args.to, n), n)

\* Goroutine 1 is in the loop with a quote open and the rune it reads
\* next is the other quote rune.
AtOtherQuote ==
    /\ pc[1] = "scan"
    /\ i[1] < Len(cmdline[1])
    /\ lastQuoteRune # NoRune
    /\ IsQuoteRune(cmdline[1][i[1] + 1])
    /\ cmdline[1][i[1] + 1] # lastQuoteRune

\* Goroutine 1 is in the loop and the rune it reads next is the open
\* quote rune.
AtMatchingQuote ==
    /\ pc[1] = "scan"
    /\ i[1] < Len(cmdline[1])
    /\ cmdline[1][i[1] + 1] = lastQuoteRune

\* C22: at most one quote is open during a scan: while a quote is open
\* the other quote rune is appended to the token as it is and opens no
\* quote, and the recorded quote rune and position stay as they are until
\* the matching quote rune closes the quote.
C22_OneQuoteOpen ==
    [][/\ AtOtherQuote =>
              /\ builder' = Append(builder, cmdline[1][i[1] + 1])
              /\ tokenizedLines' = tokenizedLines
              /\ lastQuoteRune' = lastQuoteRune
              /\ lastQuotePos' = lastQuotePos
              /\ i'[1] = i[1] + 1
       /\ lastQuoteRune # NoRune =>
              /\ lastQuotePos' = lastQuotePos
              /\ lastQuoteRune' \in {lastQuoteRune, NoRune}
              /\ lastQuoteRune' = NoRune => AtMatchingQuote]_vars

\* C22 witness: in "' the single quote was appended to the token while
\* the double quote opened at position 0 stayed open.
C22_Witness ==
    /\ pc[1] = "scan"
    /\ startedFresh[1]
    /\ Len(cmdline[1]) >= 2
    /\ cmdline[1][1] = DQ
    /\ cmdline[1][2] = SQ
    /\ i[1] = 2
    /\ builder = <<SQ>>
    /\ lastQuoteRune = DQ
    /\ lastQuotePos = 0

\* C24: over any sequence of CreateBodyTempfile and RemoveBodyTempfile
\* calls on one RequestConfig at most one temporary file of the config
\* exists, the one TempfileName names, and after a RemoveBodyTempfile(true)
\* whose deletion succeeded none exists.
C24_OneTempfile ==
    /\ Cardinality(fs) <= 1
    /\ fs \subseteq {rc.TempfileName}
    /\ (rcLast.op = "remove" /\ rcLast.force /\ rcLast.attempted
            /\ ~rcLast.err) => fs = {}

\* C23: whenever CaptureEditorOutput tokenizes its non-empty editor
\* string without error, the token list has at least one element and its
\* element 0 is the first token of the editor string, so taking element 0
\* as the executable and the rest as arguments is defined.
C23_EditorIsFirstToken ==
    (capLast.called /\ capLast.tokenized) =>
        /\ ~capLast.panic
        /\ Len(capLast.tokens) >= 1
        /\ LET first == FreshResult(capLast.editorStr).tokens
           IN  /\ Len(first) >= 1
               /\ capLast.tokens[1] = first[1]

\* C25: LoadEditedTemplateContent removes its temporary copy on every
\* return after the copy was created, and when the removal fails it
\* returns an error.
C25_RemovalFailureReturned ==
    (loadLast.called /\ loadLast.created /\ ~loadLast.panic) =>
        /\ loadLast.removeAttempted
        /\ loadLast.rmvFailed => loadLast.retErr

====
